---- MODULE Spec2Model ----
(***************************************************************************)
(* sql-patch: executePatches (src/index.ts).                               *)
(*                                                                         *)
(* One invocation of executePatches is a chain of callbacks:               *)
(*   CreateTable -> readdir -> Select -> loop(readFile -> executeSQL ->    *)
(*   Insert -> loop ...) -> callback.                                      *)
(* Each action below is one callback of that chain, together with the      *)
(* effect on the database or the filesystem of the operation it completes  *)
(* and with the operation it issues next.                                  *)
(***************************************************************************)
EXTENDS Integers, Sequences, FiniteSets, TLC

(***************************************************************************)
(* Bounds.                                                                 *)
(***************************************************************************)
\* largest number of entries of the patches directory
MaxFiles == 3
\* number of invocations of executePatches
MaxRuns == 2

(***************************************************************************)
(* Filenames.  A filename is a JavaScript string; CodeUnits gives its      *)
(* UTF-16 code units, on which the regular expression and the default      *)
(* comparison of Array.prototype.sort work.                                *)
(***************************************************************************)
CodeUnits ==
  [ f \in {"a.sql", "b.sql", "c.sql", "notes.txt", "X.SQL", "b.sql.disabled"} |->
      CASE f = "a.sql"          -> <<97, 46, 115, 113, 108>>
        [] f = "b.sql"          -> <<98, 46, 115, 113, 108>>
        [] f = "c.sql"          -> <<99, 46, 115, 113, 108>>
        [] f = "notes.txt"      -> <<110, 111, 116, 101, 115, 46, 116, 120, 116>>
        [] f = "X.SQL"          -> <<88, 46, 83, 81, 76>>
        [] f = "b.sql.disabled" -> <<98, 46, 115, 113, 108, 46, 100, 105, 115,
                                     97, 98, 108, 101, 100>> ]

Names == DOMAIN CodeUnits

\* the code units of ".sql", the text the pattern /\.sql$/ matches
DotSql == <<46, 115, 113, 108>>

\* the pattern without its anchor, /\.sql/: ".sql" anywhere in the name
MatchSqlAny(filename) ==
  \E i \in 1..Len(CodeUnits[filename]) :
     /\ i + 3 <= Len(CodeUnits[filename])
     /\ SubSeq(CodeUnits[filename], i, i + 3) = DotSql

\* filename.match(/\.sql$/): the last four code units are ".sql"
MatchSql(filename) ==
  LET u == CodeUnits[filename]
  IN  /\ Len(u) >= Len(DotSql)
      /\ SubSeq(u, Len(u) - Len(DotSql) + 1, Len(u)) = DotSql

\* the default sort order of strings: by code units, a proper prefix first
RECURSIVE UnitsLess(_, _)
UnitsLess(u, v) ==
  IF v = <<>> THEN FALSE
  ELSE IF u = <<>> THEN TRUE
  ELSE IF Head(u) # Head(v) THEN Head(u) < Head(v)
  ELSE UnitsLess(Tail(u), Tail(v))

\* the comparison the wrong way round
StringGreater(a, b) == UnitsLess(CodeUnits[b], CodeUnits[a])

StringLess(a, b) == UnitsLess(CodeUnits[a], CodeUnits[b])

\* a test that finds nothing applied
NotInAlways(x, s) == TRUE

\* a test that looks at the first element only
NotInFirst(x, s) == s = <<>> \/ s[1] # x

\* Array.prototype.indexOf(x) === -1
NotIn(x, s) == \A i \in 1..Len(s) : s[i] # x

\* Array.prototype.filter
RECURSIVE Filter(_, _)
Filter(s, applied) ==
  IF s = <<>> THEN <<>>
  ELSE IF NotIn(Head(s), applied) /\ MatchSql(Head(s))
       THEN <<Head(s)>> \o Filter(Tail(s), applied)
       ELSE Filter(Tail(s), applied)

\* Array.prototype.sort() with the default comparison
RECURSIVE InsertSorted(_, _)
InsertSorted(x, s) ==
  IF s = <<>> THEN <<x>>
  ELSE IF StringLess(x, Head(s)) THEN <<x>> \o s
  ELSE <<Head(s)>> \o InsertSorted(x, Tail(s))

RECURSIVE Sort(_)
Sort(s) == IF s = <<>> THEN <<>> ELSE InsertSorted(Head(s), Sort(Tail(s)))

\* the map that loses the first row
MapFilenameTail(patches) ==
  [i \in 1..(Len(patches) - 1) |-> patches[i + 1].filename]

\* patches.map(patch => patch.filename)
RECURSIVE MapFilename(_)
MapFilename(patches) ==
  IF patches = <<>> THEN <<>>
  ELSE <<Head(patches).filename>> \o MapFilename(Tail(patches))

\* the filter without the sort
UnsortedUnapplied(filenames, applied_filenames) == Filter(filenames, applied_filenames)

\* filenames.filter(...).sort()
Unapplied(filenames, applied_filenames) == Sort(Filter(filenames, applied_filenames))

(***************************************************************************)
(* Values.                                                                 *)
(***************************************************************************)
Runs == 1..MaxRuns

\* the value of a variable that holds no string
Undefined == "<undefined>"

\* the null passed as the error of a successful callback
Null == [null |-> TRUE]

\* the error a collaborator reports for a failed operation
OpError(op) == [name |-> "Error", from |-> op]

\* the text of a patch file
Contents(f) == <<"contents of", f>>

\* the row an insert of {filename: f} creates
Row(f) == [filename |-> f]

\* all sequences over S without repetition, of length at most n
RECURSIVE Arrangements(_, _)
Arrangements(S, n) ==
  IF n = 0 THEN {<<>>}
  ELSE {<<>>} \cup { <<x>> \o t : x \in S, t \in Arrangements(S, n - 1) }

NoRepeat(s) == \A i, j \in 1..Len(s) : i # j => s[i] # s[j]

Range(s) == { s[i] : i \in 1..Len(s) }

(***************************************************************************)
(* State.                                                                  *)
(***************************************************************************)
VARIABLES
  dir,                      \* the patches directory: its entries in listing order
  tableExists,              \* the bookkeeping table has been created
  table,                    \* the rows of the bookkeeping table, in insertion order
  executed,                 \* the SQL texts the database has executed, in order
  pc,                       \* per run: the operation whose callback is awaited
  filenames,                \* per run: the listing readdir returned
  applied_filenames,        \* per run
  unapplied_filenames,      \* per run
  newly_applied_filenames,  \* per run
  unapplied_filename,       \* per run: the file of the current loop() call
  file_contents,            \* per run: the text readFile returned
  calls,                    \* per run: the operations completed, with outcome
  cb,                       \* per run: the argument lists the callback was called with
  cli                       \* the command line process: main() and its exit

vars == <<dir, tableExists, table, executed, pc, filenames, applied_filenames,
          unapplied_filenames, newly_applied_filenames, unapplied_filename,
          file_contents, calls, cb, cli>>

env == <<dir, tableExists, table, executed>>

\* s with x put in as its i-th element
InsertAt(s, i, x) == SubSeq(s, 1, i - 1) \o <<x>> \o SubSeq(s, i, Len(s))
locals == <<filenames, applied_filenames, unapplied_filenames,
            newly_applied_filenames, unapplied_filename, file_contents>>

\* the values of cli.  argv holds the options main() looks at: whether --help,
\* --version and --database are given.  exit is the exit status of the process,
\* NoExit while it runs.  connection tells that new Connection(...) was made.
\* error is the argument printUsageAndExit was called with, NotCalled before.
NoExit == -1
NotCalled == [called |-> FALSE]
NoArgument == [undefined |-> TRUE]
Argv == [help : BOOLEAN, version : BOOLEAN, database : BOOLEAN]
CliState(at, argv, exit, connection, error) ==
  [pc |-> at, argv |-> argv, exit |-> exit, connection |-> connection,
   error |-> error]

\* executePatches used as a library: no command line process
CliOff ==
  CliState("off", [help |-> FALSE, version |-> FALSE, database |-> FALSE],
           NoExit, FALSE, NotCalled)

\* the database, the directory and the invocations before the first invocation
InitStore ==
  /\ dir \in { d \in Arrangements(Names, MaxFiles) : NoRepeat(d) }
  /\ tableExists = FALSE
  /\ table = <<>>
  /\ executed = <<>>
  /\ pc = [r \in Runs |-> "idle"]
  /\ filenames = [r \in Runs |-> <<>>]
  /\ applied_filenames = [r \in Runs |-> <<>>]
  /\ unapplied_filenames = [r \in Runs |-> <<>>]
  /\ newly_applied_filenames = [r \in Runs |-> <<>>]
  /\ unapplied_filename = [r \in Runs |-> Undefined]
  /\ file_contents = [r \in Runs |-> Contents(Undefined)]
  /\ calls = [r \in Runs |-> <<>>]
  /\ cb = [r \in Runs |-> <<>>]

Init == InitStore /\ cli = CliOff

Active(r) == pc[r] \notin {"idle", "done"}

\* the outcomes an operation can have: it can succeed when `possible`, and it
\* can fail
Outcomes(possible) == { ok \in BOOLEAN : ok => possible }

\* an operation of run r completes: it is recorded with its argument and outcome
Completed(r, op, arg, ok) ==
  calls' = [calls EXCEPT ![r] = Append(@, [op |-> op, arg |-> arg, ok |-> ok])]

\* return callback(err)
CallbackError(r, err) ==
  /\ cb' = [cb EXCEPT ![r] = Append(@, <<err>>)]
  /\ pc' = [pc EXCEPT ![r] = "done"]

\* the executeSQL error wrapped with the name of the file
ExecuteSQLErrWrapped(executeSQLErr, unapplied) ==
  [name |-> "ExecutionError", cause |-> executeSQLErr, filename |-> unapplied]

\* the error the executeSQL callback hands to callback: executeSQLErr itself
ExecuteSQLErr(executeSQLErr, unapplied) == executeSQLErr

(***************************************************************************)
(* loop(): shift the next unapplied filename; finish when there is none,   *)
(* else issue readFile for it.  `rest` is unapplied_filenames and `newly`  *)
(* is newly_applied_filenames at the time of the call.                     *)
(***************************************************************************)
\* loop() that takes the first filename without removing it from the list
loopNoShift(r, rest, newly) ==
  /\ newly_applied_filenames' = [newly_applied_filenames EXCEPT ![r] = newly]
  /\ unapplied_filenames' = [unapplied_filenames EXCEPT ![r] = rest]
  /\ IF rest = <<>>
     THEN /\ unapplied_filename' = [unapplied_filename EXCEPT ![r] = Undefined]
          /\ cb' = [cb EXCEPT ![r] = Append(@, <<Null, newly>>)]
          /\ pc' = [pc EXCEPT ![r] = "done"]
     ELSE /\ unapplied_filename' = [unapplied_filename EXCEPT ![r] = Head(rest)]
          /\ cb' = cb
          /\ pc' = [pc EXCEPT ![r] = "readFile"]

\* loop() that just returns when no filename is left, without calling back
loopNoCallback(r, rest, newly) ==
  /\ newly_applied_filenames' = [newly_applied_filenames EXCEPT ![r] = newly]
  /\ IF rest = <<>>
     THEN /\ unapplied_filename' = [unapplied_filename EXCEPT ![r] = Undefined]
          /\ unapplied_filenames' = [unapplied_filenames EXCEPT ![r] = rest]
          /\ cb' = cb
          /\ pc' = [pc EXCEPT ![r] = "returned"]
     ELSE /\ unapplied_filename' = [unapplied_filename EXCEPT ![r] = Head(rest)]
          /\ unapplied_filenames' = [unapplied_filenames EXCEPT ![r] = Tail(rest)]
          /\ cb' = cb
          /\ pc' = [pc EXCEPT ![r] = "readFile"]

loop(r, rest, newly) ==
  /\ newly_applied_filenames' = [newly_applied_filenames EXCEPT ![r] = newly]
  /\ IF rest = <<>>
     THEN /\ unapplied_filename' = [unapplied_filename EXCEPT ![r] = Undefined]
          /\ unapplied_filenames' = [unapplied_filenames EXCEPT ![r] = rest]
          /\ cb' = [cb EXCEPT ![r] = Append(@, <<Null, newly>>)]
          /\ pc' = [pc EXCEPT ![r] = "done"]
     ELSE /\ unapplied_filename' = [unapplied_filename EXCEPT ![r] = Head(rest)]
          /\ unapplied_filenames' = [unapplied_filenames EXCEPT ![r] = Tail(rest)]
          /\ cb' = cb
          /\ pc' = [pc EXCEPT ![r] = "readFile"]

(***************************************************************************)
(* Operations.                                                             *)
(***************************************************************************)
\* executePatches is called: CreateTable(...).ifNotExists().execute is issued.
\* Invocations do not overlap: run r starts when the runs before it are done.
executePatches(r) ==
  /\ pc[r] = "idle"
  /\ \A q \in Runs : q < r => pc[q] = "done"
  /\ pc' = [pc EXCEPT ![r] = "createTable"]
  /\ UNCHANGED <<env, locals, calls, cb>>

\* the CreateTable callback without the return on error: it reports the error
\* and goes on to readdir
CreateTableCallbackNoReturn(r) ==
  /\ pc[r] = "createTable"
  /\ \E ok \in Outcomes(TRUE) :
       /\ Completed(r, "createTable", Undefined, ok)
       /\ tableExists' = (tableExists \/ ok)
       /\ cb' = IF ok THEN cb
                ELSE [cb EXCEPT ![r] = Append(@, <<OpError("createTable")>>)]
       /\ pc' = [pc EXCEPT ![r] = "readdir"]
  /\ UNCHANGED <<dir, table, executed, locals>>

\* the callback of CreateTable ... execute
CreateTableCallback(r) ==
  /\ pc[r] = "createTable"
  /\ \E ok \in Outcomes(TRUE) :
       /\ Completed(r, "createTable", Undefined, ok)
       /\ IF ok
          THEN /\ tableExists' = TRUE
               /\ pc' = [pc EXCEPT ![r] = "readdir"]
               /\ cb' = cb
          ELSE /\ tableExists' = tableExists
               /\ CallbackError(r, OpError("createTable"))
  /\ UNCHANGED <<dir, table, executed, locals>>

\* the callback of readdir
ReaddirCallback(r) ==
  /\ pc[r] = "readdir"
  /\ \E ok \in Outcomes(TRUE) :
       /\ Completed(r, "readdir", Undefined, ok)
       /\ IF ok
          THEN /\ filenames' = [filenames EXCEPT ![r] = dir]
               /\ pc' = [pc EXCEPT ![r] = "select"]
               /\ cb' = cb
          ELSE /\ filenames' = filenames
               /\ CallbackError(r, OpError("readdir"))
  /\ UNCHANGED <<env, applied_filenames, unapplied_filenames,
                 newly_applied_filenames, unapplied_filename, file_contents>>

\* the select callback that keeps what earlier runs have applied in mind and
\* adds it to the rows it is given
SelectCallbackRemembering(r) ==
  LET RECURSIVE Remembered(_)
      Remembered(q) ==
        IF q = 1 THEN <<>>
        ELSE Remembered(q - 1) \o newly_applied_filenames[q - 1]
      applied == MapFilename(table) \o Remembered(r)
  IN  /\ pc[r] = "select"
      /\ \E ok \in Outcomes(tableExists) :
           /\ Completed(r, "select", Undefined, ok)
           /\ IF ok
              THEN /\ applied_filenames' = [applied_filenames EXCEPT ![r] = applied]
                   /\ loop(r, Unapplied(filenames[r], applied), <<>>)
              ELSE /\ CallbackError(r, OpError("select"))
                   /\ UNCHANGED <<applied_filenames, unapplied_filenames,
                                  newly_applied_filenames, unapplied_filename>>
      /\ UNCHANGED <<env, filenames, file_contents>>

\* the select callback that also drops the rows of the files that are no longer
\* in the directory
SelectCallbackPrune(r) ==
  /\ pc[r] = "select"
  /\ \E ok \in Outcomes(tableExists) :
       /\ Completed(r, "select", Undefined, ok)
       /\ IF ok
          THEN /\ applied_filenames' =
                    [applied_filenames EXCEPT ![r] = MapFilename(table)]
               /\ table' = SelectSeq(table, LAMBDA row : row.filename \in Range(filenames[r]))
               /\ loop(r, Unapplied(filenames[r], MapFilename(table)), <<>>)
          ELSE /\ CallbackError(r, OpError("select"))
               /\ UNCHANGED <<table, applied_filenames, unapplied_filenames,
                              newly_applied_filenames, unapplied_filename>>
  /\ UNCHANGED <<dir, tableExists, executed, filenames, file_contents>>

\* the callback of Select ... execute; on success it computes the unapplied
\* filenames and makes the first call of loop()
SelectCallback(r) ==
  /\ pc[r] = "select"
  /\ \E ok \in Outcomes(tableExists) :
       /\ Completed(r, "select", Undefined, ok)
       /\ IF ok
          THEN /\ applied_filenames' =
                    [applied_filenames EXCEPT ![r] = MapFilename(table)]
               /\ loop(r, Unapplied(filenames[r], MapFilename(table)), <<>>)
          ELSE /\ CallbackError(r, OpError("select"))
               /\ UNCHANGED <<applied_filenames, unapplied_filenames,
                              newly_applied_filenames, unapplied_filename>>
  /\ UNCHANGED <<env, filenames, file_contents>>

\* the readFile callback without the return on error: it goes on to executeSQL
ReadFileCallbackNoReturn(r) ==
  /\ pc[r] = "readFile"
  /\ \E ok \in Outcomes(unapplied_filename[r] \in Range(dir)) :
       /\ Completed(r, "readFile", unapplied_filename[r], ok)
       /\ file_contents' =
            [file_contents EXCEPT ![r] = Contents(IF ok THEN unapplied_filename[r]
                                                       ELSE Undefined)]
       /\ pc' = [pc EXCEPT ![r] = "executeSQL"]
       /\ cb' = IF ok THEN cb
                ELSE [cb EXCEPT ![r] = Append(@, <<OpError("readFile")>>)]
  /\ UNCHANGED <<env, filenames, applied_filenames, unapplied_filenames,
                 newly_applied_filenames, unapplied_filename>>

\* the callback of readFile
ReadFileCallback(r) ==
  /\ pc[r] = "readFile"
  /\ \E ok \in Outcomes(unapplied_filename[r] \in Range(dir)) :
       /\ Completed(r, "readFile", unapplied_filename[r], ok)
       /\ IF ok
          THEN /\ file_contents' =
                    [file_contents EXCEPT ![r] = Contents(unapplied_filename[r])]
               /\ pc' = [pc EXCEPT ![r] = "executeSQL"]
               /\ cb' = cb
          ELSE /\ file_contents' = file_contents
               /\ CallbackError(r, OpError("readFile"))
  /\ UNCHANGED <<env, filenames, applied_filenames, unapplied_filenames,
                 newly_applied_filenames, unapplied_filename>>

\* the executeSQL callback without the return on error: it reports the error
\* and goes on to the insert
ExecuteSQLCallbackNoReturn(r) ==
  /\ pc[r] = "executeSQL"
  /\ \E ok \in Outcomes(TRUE) :
       /\ Completed(r, "executeSQL", file_contents[r], ok)
       /\ executed' = IF ok THEN Append(executed, file_contents[r]) ELSE executed
       /\ pc' = [pc EXCEPT ![r] = "insert"]
       /\ cb' = IF ok THEN cb
                ELSE [cb EXCEPT ![r] = Append(@, <<OpError("executeSQL")>>)]
  /\ UNCHANGED <<dir, tableExists, table, locals>>

\* the executeSQL callback without the test of executeSQLErr
ExecuteSQLCallbackNoCheck(r) ==
  /\ pc[r] = "executeSQL"
  /\ \E ok \in Outcomes(TRUE) :
       /\ Completed(r, "executeSQL", file_contents[r], ok)
       /\ executed' = IF ok THEN Append(executed, file_contents[r]) ELSE executed
       /\ pc' = [pc EXCEPT ![r] = "insert"]
       /\ cb' = cb
  /\ UNCHANGED <<dir, tableExists, table, locals>>

\* the callback of executeSQL
\* the executeSQL callback that pushes the filename before it issues the insert
ExecuteSQLCallbackPushEarly(r) ==
  /\ pc[r] = "executeSQL"
  /\ \E ok \in Outcomes(TRUE) :
       /\ Completed(r, "executeSQL", file_contents[r], ok)
       /\ IF ok
          THEN /\ executed' = Append(executed, file_contents[r])
               /\ newly_applied_filenames' =
                    [newly_applied_filenames EXCEPT
                       ![r] = Append(@, unapplied_filename[r])]
               /\ pc' = [pc EXCEPT ![r] = "insert"]
               /\ cb' = cb
          ELSE /\ executed' = executed
               /\ newly_applied_filenames' = newly_applied_filenames
               /\ CallbackError(r, ExecuteSQLErr(OpError("executeSQL"),
                                                 unapplied_filename[r]))
  /\ UNCHANGED <<dir, tableExists, table, filenames, applied_filenames,
                 unapplied_filenames, unapplied_filename, file_contents>>

\* the executeSQL callback that issues the insert and, without waiting for it,
\* pushes the filename and calls loop()
ExecuteSQLCallbackNoWait(r) ==
  /\ pc[r] = "executeSQL"
  /\ \E ok \in Outcomes(TRUE) :
       /\ Completed(r, "executeSQL", file_contents[r], ok)
       /\ IF ok
          THEN /\ executed' = Append(executed, file_contents[r])
               /\ loop(r, unapplied_filenames[r],
                       Append(newly_applied_filenames[r], unapplied_filename[r]))
          ELSE /\ executed' = executed
               /\ CallbackError(r, ExecuteSQLErr(OpError("executeSQL"),
                                                 unapplied_filename[r]))
               /\ UNCHANGED <<unapplied_filenames, newly_applied_filenames,
                              unapplied_filename>>
  /\ UNCHANGED <<dir, tableExists, table, filenames, applied_filenames,
                 file_contents>>

ExecuteSQLCallback(r) ==
  /\ pc[r] = "executeSQL"
  /\ \E ok \in Outcomes(TRUE) :
       /\ Completed(r, "executeSQL", file_contents[r], ok)
       /\ IF ok
          THEN /\ executed' = Append(executed, file_contents[r])
               /\ pc' = [pc EXCEPT ![r] = "insert"]
               /\ cb' = cb
          ELSE /\ executed' = executed
               /\ CallbackError(r, ExecuteSQLErr(OpError("executeSQL"),
                                                 unapplied_filename[r]))
  /\ UNCHANGED <<dir, tableExists, table, locals>>

\* the insert callback without the test of insertErr
InsertCallbackNoCheck(r) ==
  /\ pc[r] = "insert"
  /\ \E ok \in Outcomes(tableExists) :
       /\ Completed(r, "insert", unapplied_filename[r], ok)
       /\ table' = IF ok THEN Append(table, Row(unapplied_filename[r])) ELSE table
       /\ loop(r, unapplied_filenames[r],
               Append(newly_applied_filenames[r], unapplied_filename[r]))
  /\ UNCHANGED <<dir, tableExists, executed, filenames, applied_filenames,
                 file_contents>>

\* the insert callback without the return on error: it reports the error, then
\* pushes the filename and calls loop() all the same
InsertCallbackNoReturn(r) ==
  /\ pc[r] = "insert"
  /\ \E ok \in Outcomes(tableExists) :
       LET reported == IF ok THEN cb[r] ELSE Append(cb[r], <<OpError("insert")>>)
           newly == Append(newly_applied_filenames[r], unapplied_filename[r])
           rest == unapplied_filenames[r]
       IN  /\ Completed(r, "insert", unapplied_filename[r], ok)
           /\ table' = IF ok THEN Append(table, Row(unapplied_filename[r])) ELSE table
           /\ newly_applied_filenames' = [newly_applied_filenames EXCEPT ![r] = newly]
           /\ IF rest = <<>>
              THEN /\ unapplied_filename' = [unapplied_filename EXCEPT ![r] = Undefined]
                   /\ unapplied_filenames' = unapplied_filenames
                   /\ cb' = [cb EXCEPT ![r] = Append(reported, <<Null, newly>>)]
                   /\ pc' = [pc EXCEPT ![r] = "done"]
              ELSE /\ unapplied_filename' = [unapplied_filename EXCEPT ![r] = Head(rest)]
                   /\ unapplied_filenames' = [unapplied_filenames EXCEPT ![r] = Tail(rest)]
                   /\ cb' = [cb EXCEPT ![r] = reported]
                   /\ pc' = [pc EXCEPT ![r] = "readFile"]
  /\ UNCHANGED <<dir, tableExists, executed, filenames, applied_filenames,
                 file_contents>>

\* the callback of Insert ... execute; on success it pushes the filename and
\* calls loop() again
InsertCallback(r) ==
  /\ pc[r] = "insert"
  /\ \E ok \in Outcomes(tableExists) :
       /\ Completed(r, "insert", unapplied_filename[r], ok)
       /\ IF ok
          THEN /\ table' = Append(table, Row(unapplied_filename[r]))
               /\ loop(r, unapplied_filenames[r],
                       Append(newly_applied_filenames[r], unapplied_filename[r]))
          ELSE /\ table' = table
               /\ CallbackError(r, OpError("insert"))
               /\ UNCHANGED <<unapplied_filenames, newly_applied_filenames,
                              unapplied_filename>>
  /\ UNCHANGED <<dir, tableExists, executed, filenames, applied_filenames,
                 file_contents>>

\* between two invocations a new file appears in the patches directory, at any
\* place of its listing
AddFile(f, i) ==
  /\ \A r \in Runs : ~Active(r)
  /\ \E r \in Runs : pc[r] = "done"
  /\ \E r \in Runs : pc[r] = "idle"
  /\ Len(dir) < MaxFiles
  /\ f \notin Range(dir)
  /\ dir' = InsertAt(dir, i, f)
  /\ UNCHANGED <<tableExists, table, executed, pc, locals, calls, cb>>

Next ==
  \/ \E r \in Runs : executePatches(r) /\ UNCHANGED cli
  \/ \E r \in Runs : CreateTableCallback(r) /\ UNCHANGED cli
  \/ \E r \in Runs : ReaddirCallback(r) /\ UNCHANGED cli
  \/ \E r \in Runs : SelectCallback(r) /\ UNCHANGED cli
  \/ \E r \in Runs : ReadFileCallback(r) /\ UNCHANGED cli
  \/ \E r \in Runs : ExecuteSQLCallback(r) /\ UNCHANGED cli
  \/ \E r \in Runs : InsertCallback(r) /\ UNCHANGED cli
  \/ \E f \in Names : \E i \in 1..(Len(dir) + 1) : AddFile(f, i) /\ UNCHANGED cli

Spec == Init /\ [][Next]_vars

(***************************************************************************)
(* The environment may also take files away and change the table.  The     *)
(* patches directory is an ordinary directory and the table an ordinary    *)
(* table: between two invocations a file can be deleted, and somebody else *)
(* can delete a row.                                                       *)
(***************************************************************************)
RemoveAt(s, i) == [j \in 1..(Len(s) - 1) |-> IF j < i THEN s[j] ELSE s[j + 1]]

\* between two invocations a file disappears from the patches directory
DeleteFile(f) ==
  /\ \A r \in Runs : ~Active(r)
  /\ \E r \in Runs : pc[r] = "done"
  /\ \E r \in Runs : pc[r] = "idle"
  /\ f \in Range(dir)
  /\ dir' = SelectSeq(dir, LAMBDA g : g # f)
  /\ UNCHANGED <<tableExists, table, executed, pc, locals, calls, cb>>

\* between two invocations the i-th row of the table is deleted by somebody else
DeleteRow(i) ==
  /\ \A r \in Runs : ~Active(r)
  /\ \E r \in Runs : pc[r] = "done"
  /\ \E r \in Runs : pc[r] = "idle"
  /\ i \in 1..Len(table)
  /\ table' = RemoveAt(table, i)
  /\ UNCHANGED <<dir, tableExists, executed, pc, locals, calls, cb>>

\* the names of the files that come and go
EnvironmentNames == {"a.sql", "b.sql", "notes.txt"}

InitEnvironment == Init /\ Range(dir) \subseteq EnvironmentNames

NextEnvironment ==
  \/ \E r \in Runs : executePatches(r) /\ UNCHANGED cli
  \/ \E r \in Runs : CreateTableCallback(r) /\ UNCHANGED cli
  \/ \E r \in Runs : ReaddirCallback(r) /\ UNCHANGED cli
  \/ \E r \in Runs : SelectCallback(r) /\ UNCHANGED cli
  \/ \E r \in Runs : ReadFileCallback(r) /\ UNCHANGED cli
  \/ \E r \in Runs : ExecuteSQLCallback(r) /\ UNCHANGED cli
  \/ \E r \in Runs : InsertCallback(r) /\ UNCHANGED cli
  \/ \E f \in EnvironmentNames :
       \E i \in 1..(Len(dir) + 1) : AddFile(f, i) /\ UNCHANGED cli
  \/ \E f \in EnvironmentNames : DeleteFile(f) /\ UNCHANGED cli
  \/ \E i \in 1..Len(table) : DeleteRow(i) /\ UNCHANGED cli

SpecEnvironment == InitEnvironment /\ [][NextEnvironment]_vars

(***************************************************************************)
(* Overlapping invocations.  Nothing in executePatches keeps a second      *)
(* invocation from starting while the first is under way: each invocation  *)
(* has its own local variables and callbacks, and the callbacks of the two *)
(* are run one at a time in the order in which their operations complete.  *)
(* The invocations are numbered in the order in which they start.          *)
(***************************************************************************)
executePatchesOverlapping(r) ==
  /\ pc[r] = "idle"
  /\ \A q \in Runs : q < r => pc[q] # "idle"
  /\ pc' = [pc EXCEPT ![r] = "createTable"]
  /\ UNCHANGED <<env, locals, calls, cb>>

NextOverlapping ==
  \/ \E r \in Runs : executePatchesOverlapping(r) /\ UNCHANGED cli
  \/ \E r \in Runs : CreateTableCallback(r) /\ UNCHANGED cli
  \/ \E r \in Runs : ReaddirCallback(r) /\ UNCHANGED cli
  \/ \E r \in Runs : SelectCallback(r) /\ UNCHANGED cli
  \/ \E r \in Runs : ReadFileCallback(r) /\ UNCHANGED cli
  \/ \E r \in Runs : ExecuteSQLCallback(r) /\ UNCHANGED cli
  \/ \E r \in Runs : InsertCallback(r) /\ UNCHANGED cli

SpecOverlapping == Init /\ [][NextOverlapping]_vars

(***************************************************************************)
(* The command line.  main() parses the options, and unless --help or      *)
(* --version is given or --database is missing it connects, creates the    *)
(* database if need be and calls executePatches once; the callback it      *)
(* hands to executePatches ends the process.  That callback runs inside    *)
(* the callback of the run's last operation, so it is part of that step.   *)
(***************************************************************************)
\* a string, as the list of the pieces it is made of; the empty string is Str(<<>>)
Str(pieces) == [pieces |-> pieces]
Pieces(x) == IF x = "" THEN <<>> ELSE <<x>>

\* Error.prototype.toString: the name, ": " and the message, or the one of the
\* two that is not empty
toString(err) ==
  Str(IF err.name = "" \/ err.from = ""
      THEN Pieces(err.name) \o Pieces(err.from)
      ELSE <<err.name, ": ", err.from>>)

\* the truth value of an optional string: undefined and "" count as false
Truthy(v) == v # NoArgument /\ v # Str(<<>>)

\* the exit without a status of its own
printUsageAndExitNoStatus(error) ==
  [cli EXCEPT !.pc = "exited", !.error = error, !.exit = 0]

\* printUsageAndExit(error): process.exit(error ? 1 : 0)
printUsageAndExit(error) ==
  [cli EXCEPT !.pc = "exited", !.error = error,
              !.exit = IF Truthy(error) THEN 1 ELSE 0]

\* process.exit() without an argument, and the exit of a process that has
\* nothing left to do: status 0
ProcessExit == [cli EXCEPT !.pc = "exited", !.exit = 0]

main ==
  /\ cli.pc = "main"
  /\ cli' = IF cli.argv.help THEN printUsageAndExit(NoArgument)
            ELSE IF cli.argv.version THEN ProcessExit
            ELSE IF ~cli.argv.database
                 THEN printUsageAndExit(
                        Str(<<"Must provide database name with --database argument.">>))
                 ELSE [cli EXCEPT !.pc = "createDatabase", !.connection = TRUE]
  /\ UNCHANGED <<env, pc, locals, calls, cb>>

\* the callback of createDatabaseIfNotExists; on success it calls executePatches
CreateDatabaseCallback ==
  /\ cli.pc = "createDatabase"
  /\ \E ok \in Outcomes(TRUE) :
       IF ok
       THEN /\ cli' = [cli EXCEPT !.pc = "executePatches"]
            /\ executePatches(1)
       ELSE /\ cli' = printUsageAndExit(toString(OpError("createDatabase")))
            /\ UNCHANGED <<env, pc, locals, calls, cb>>

\* the callback main() hands to executePatches, given the argument lists the
\* run has called it with after a step
MainCallback(called) ==
  IF called = <<>> THEN cli
  ELSE LET executeErr == called[Len(called)][1]
       IN  IF executeErr # Null THEN printUsageAndExit(toString(executeErr))
           ELSE ProcessExit

InitCLI ==
  /\ InitStore
  /\ \E argv \in Argv : cli = CliState("main", argv, NoExit, FALSE, NotCalled)

NextCLI ==
  \/ main
  \/ CreateDatabaseCallback
  \/ cli.pc = "executePatches" /\ CreateTableCallback(1) /\ cli' = MainCallback(cb'[1])
  \/ cli.pc = "executePatches" /\ ReaddirCallback(1) /\ cli' = MainCallback(cb'[1])
  \/ cli.pc = "executePatches" /\ SelectCallback(1) /\ cli' = MainCallback(cb'[1])
  \/ cli.pc = "executePatches" /\ ReadFileCallback(1) /\ cli' = MainCallback(cb'[1])
  \/ cli.pc = "executePatches" /\ ExecuteSQLCallback(1) /\ cli' = MainCallback(cb'[1])
  \/ cli.pc = "executePatches" /\ InsertCallback(1) /\ cli' = MainCallback(cb'[1])

SpecCLI == InitCLI /\ [][NextCLI]_vars

(***************************************************************************)
(* Progress.  The operations a run issues are carried out by the database  *)
(* and the filesystem; when each of them completes, with success or with   *)
(* an error, the callback the run is waiting in is eventually run.         *)
(* Whether and when the caller starts a run, and what happens to the       *)
(* directory between runs, is left open.                                   *)
(***************************************************************************)
OperationCompletes(r) ==
  /\ \/ CreateTableCallback(r)
     \/ ReaddirCallback(r)
     \/ SelectCallback(r)
     \/ ReadFileCallback(r)
     \/ ExecuteSQLCallback(r)
     \/ InsertCallback(r)
  /\ UNCHANGED cli

SpecProgress == Spec /\ \A r \in Runs : WF_vars(OperationCompletes(r))

(***************************************************************************)
(* Vocabulary of the properties.  These definitions say what the words of  *)
(* the properties mean; they do not use the operators that model the code. *)
(***************************************************************************)
\* the name ends with the four characters ".sql"
EndsWithDotSql(f) ==
  LET u == CodeUnits[f]
      n == Len(u)
  IN  /\ n >= 4
      /\ u[n - 3] = 46
      /\ u[n - 2] = 115
      /\ u[n - 1] = 113
      /\ u[n] = 108

\* a sorts before b, lexicographically by code unit
LexLess(a, b) ==
  LET u == CodeUnits[a]
      v == CodeUnits[b]
  IN  \E k \in 1..Len(v) :
        /\ k - 1 <= Len(u)
        /\ \A j \in 1..(k - 1) : u[j] = v[j]
        /\ (k = Len(u) + 1 \/ u[k] < v[k])

Ascending(s) == \A i, j \in 1..Len(s) : i < j => LexLess(s[i], s[j])

\* s lists the members of S, each once, in ascending order
AscendingListOf(s, S) ==
  /\ Len(s) = Cardinality(S)
  /\ Range(s) = S
  /\ Ascending(s)

\* the completed operations of run r of one kind, in order
CallsOf(r, op) == SelectSeq(calls[r], LAMBDA c : c.op = op)

\* the file a completed readFile, executeSQL or insert was about
FileOf(c) == IF c.op = "executeSQL" THEN c.arg[2] ELSE c.arg

\* the files of the completed operations of run r of one kind, in order
FilesOf(r, op) == [i \in 1..Len(CallsOf(r, op)) |-> FileOf(CallsOf(r, op)[i])]

\* the filenames of the rows of the table, in order
TableNames == [i \in 1..Len(table) |-> table[i].filename]

\* how often x occurs in s
Count(s, x) == Cardinality({ i \in 1..Len(s) : s[i] = x })

SelectOk(r) == \E i \in 1..Len(calls[r]) : calls[r][i].op = "select" /\ calls[r][i].ok

\* what run r found in the directory and in the table
Listed(r) == Range(filenames[r])
AppliedSet(r) == Range(applied_filenames[r])
UnappliedSet(r) == { f \in Listed(r) : EndsWithDotSql(f) /\ f \notin AppliedSet(r) }

\* run r has reported success; Result(r) is the list it reported
Succeeded(r) ==
  /\ pc[r] = "done"
  /\ Len(cb[r]) = 1
  /\ Len(cb[r][1]) = 2
  /\ cb[r][1][1] = Null
Result(r) == cb[r][1][2]

\* run r has reported an error and no list
Failed(r) ==
  /\ pc[r] = "done"
  /\ Len(cb[r]) = 1
  /\ Len(cb[r][1]) = 1
  /\ cb[r][1][1] # Null

\* run r has issued no readFile, executeSQL or insert
NoPatchOperation(r) ==
  /\ pc[r] \notin {"readFile", "executeSQL", "insert"}
  /\ \A i \in 1..Len(calls[r]) : calls[r][i].op \notin {"readFile", "executeSQL", "insert"}

(***************************************************************************)
(* C1  Idempotence.  A run that finds in the table a row for every entry   *)
(* of the directory reports success with the empty list and reads,         *)
(* executes and inserts nothing.  The same holds of a run that follows a   *)
(* run which reported success, when the directory listing is the same      *)
(* (the table is changed by nothing but the runs).                         *)
(***************************************************************************)
C1_Idempotence ==
  \A r \in Runs :
    /\ (SelectOk(r) /\ Listed(r) \subseteq AppliedSet(r)) =>
          /\ Succeeded(r)
          /\ Result(r) = <<>>
          /\ NoPatchOperation(r)
    /\ (r > 1 /\ SelectOk(r) /\ Succeeded(r - 1) /\ filenames[r] = filenames[r - 1]) =>
          /\ Succeeded(r)
          /\ Result(r) = <<>>
          /\ NoPatchOperation(r)

\* a second run right after a first one that applied two patches
C1_Witness ==
  /\ MaxRuns >= 2
  /\ Succeeded(1)
  /\ Len(Result(1)) = 2
  /\ filenames[2] = filenames[1]
  /\ Listed(2) \subseteq AppliedSet(2)
  /\ SelectOk(2)
  /\ Succeeded(2)

(***************************************************************************)
(* C2  Ordering.  Whatever the order of the listing, the files a run       *)
(* reads, executes and records are in ascending order of filename, and a   *)
(* file is executed only when every unapplied file that sorts lower has    *)
(* been recorded by the run.                                               *)
(***************************************************************************)
C2_Ordering ==
  \A r \in Runs :
    /\ Ascending(FilesOf(r, "readFile"))
    /\ Ascending(FilesOf(r, "executeSQL"))
    /\ Ascending(FilesOf(r, "insert"))
    /\ Ascending(newly_applied_filenames[r])
    /\ \A i \in 1..Len(calls[r]) :
         calls[r][i].op = "executeSQL" =>
           \A g \in UnappliedSet(r) :
             LexLess(g, FileOf(calls[r][i])) =>
               \E j \in 1..(i - 1) :
                 /\ calls[r][j].op = "insert"
                 /\ calls[r][j].ok
                 /\ calls[r][j].arg = g
    /\ pc[r] = "executeSQL" =>
         \A g \in UnappliedSet(r) :
           LexLess(g, unapplied_filename[r]) => g \in Range(TableNames)

\* b.sql, a.sql, c.sql listed in that order, executed and recorded as a, b, c
C2_Witness ==
  \E r \in Runs :
    /\ filenames[r] = <<"b.sql", "a.sql", "c.sql">>
    /\ Succeeded(r)
    /\ Result(r) = <<"a.sql", "b.sql", "c.sql">>
    /\ FilesOf(r, "executeSQL") = <<"a.sql", "b.sql", "c.sql">>
    /\ FilesOf(r, "insert") = <<"a.sql", "b.sql", "c.sql">>

(***************************************************************************)
(* C3  Filtering.  A run reads, executes or records a file, or returns it  *)
(* in its list, only if the name ends with ".sql" and the run found no row *)
(* for it in the table.                                                    *)
(***************************************************************************)
Patchable(r, f) == f \in Names /\ EndsWithDotSql(f) /\ f \notin AppliedSet(r)

C3_Filtering ==
  /\ ~EndsWithDotSql("notes.txt")
  /\ ~EndsWithDotSql("b.sql.disabled")
  /\ ~EndsWithDotSql("X.SQL")
  /\ \A r \in Runs :
       /\ \A i \in 1..Len(calls[r]) :
            calls[r][i].op \in {"readFile", "executeSQL", "insert"} =>
              Patchable(r, FileOf(calls[r][i]))
       /\ pc[r] \in {"readFile", "executeSQL", "insert"} =>
            Patchable(r, unapplied_filename[r])
       /\ \A i \in 1..Len(unapplied_filenames[r]) :
            Patchable(r, unapplied_filenames[r][i])
       /\ \A i \in 1..Len(newly_applied_filenames[r]) :
            Patchable(r, newly_applied_filenames[r][i])
       /\ Succeeded(r) => \A i \in 1..Len(Result(r)) : Patchable(r, Result(r)[i])
  /\ \A i \in 1..Len(table) : EndsWithDotSql(table[i].filename)
  /\ \A i \in 1..Len(executed) : EndsWithDotSql(executed[i][2])

\* a directory with X.SQL, b.sql.disabled and b.sql: only b.sql is applied
C3_Witness ==
  \E r \in Runs :
    /\ Listed(r) = {"X.SQL", "b.sql.disabled", "b.sql"}
    /\ Succeeded(r)
    /\ Result(r) = <<"b.sql">>
    /\ FilesOf(r, "readFile") = <<"b.sql">>
    /\ TableNames = <<"b.sql">>

(***************************************************************************)
(* More vocabulary.                                                        *)
(***************************************************************************)
\* the files run r has inserted a row for, in order
Inserted(r) ==
  LET ok == SelectSeq(calls[r], LAMBDA c : c.op = "insert" /\ c.ok)
  IN  [i \in 1..Len(ok) |-> ok[i].arg]

\* the files whose SQL run r has executed without error, in order
Executed(r) ==
  LET ok == SelectSeq(calls[r], LAMBDA c : c.op = "executeSQL" /\ c.ok)
  IN  [i \in 1..Len(ok) |-> ok[i].arg[2]]

\* no run after r has begun
Latest(r) == \A q \in Runs : q > r => pc[q] = "idle"

\* the unapplied files of run r that sort before f, and after f
Before(r, f) == { g \in UnappliedSet(r) : LexLess(g, f) }
After(r, f) == { g \in UnappliedSet(r) : LexLess(f, g) }

\* the i-th completed operation of run r is a failed one of kind op
FailedAt(r, i, op) == calls[r][i].op = op /\ ~calls[r][i].ok

(***************************************************************************)
(* C4  Partial-application halt.  When the executeSQL of the k-th          *)
(* unapplied file fails, the run has inserted rows for exactly the k-1     *)
(* files before it, the table holds no row for the k-th or a later file,   *)
(* no later file has been read or executed, and the run has ended with an  *)
(* error and no list.                                                      *)
(***************************************************************************)
C4_PartialHalt ==
  \A r \in Runs : \A i \in 1..Len(calls[r]) :
    FailedAt(r, i, "executeSQL") =>
      LET f == FileOf(calls[r][i])
      IN  /\ i = Len(calls[r])
          /\ Failed(r)
          /\ f \in UnappliedSet(r)
          /\ AscendingListOf(Inserted(r), Before(r, f))
          /\ AscendingListOf(Executed(r), Before(r, f))
          /\ \A j \in 1..Len(calls[r]) :
               calls[r][j].op \in {"readFile", "executeSQL", "insert"} =>
                 /\ FileOf(calls[r][j]) \notin After(r, f)
                 /\ calls[r][j].op = "insert" => calls[r][j].arg # f
          /\ Latest(r) =>
               /\ TableNames = applied_filenames[r] \o Inserted(r)
               /\ Range(TableNames) \cap ({f} \cup After(r, f)) = {}

\* the second of three unapplied files fails
C4_Witness ==
  \E r \in Runs :
    /\ UnappliedSet(r) = {"a.sql", "b.sql", "c.sql"}
    /\ Len(calls[r]) > 0
    /\ FailedAt(r, Len(calls[r]), "executeSQL")
    /\ FileOf(calls[r][Len(calls[r])]) = "b.sql"
    /\ TableNames = <<"a.sql">>
    /\ Failed(r)

(***************************************************************************)
(* C5  The error of a failed executeSQL, as handed to the caller.          *)
(***************************************************************************)
\* C5 as stated: the error handed to the caller carries the database error
\* and the filename of the failing patch
C5_ErrorNamesFile ==
  \A r \in Runs : \A i \in 1..Len(calls[r]) :
    (FailedAt(r, i, "executeSQL") /\ Failed(r)) =>
      LET e == cb[r][1][1]
      IN  /\ "filename" \in DOMAIN e
          /\ e.filename = FileOf(calls[r][i])
          /\ "cause" \in DOMAIN e
          /\ e.cause = OpError("executeSQL")

\* C5 amended: when a patch file's SQL fails to execute, the error handed to
\* the caller is the database error itself, unchanged; it carries no filename
C5_ErrorIsDatabaseError ==
  \A r \in Runs : \A i \in 1..Len(calls[r]) :
    FailedAt(r, i, "executeSQL") =>
      /\ Failed(r)
      /\ cb[r][1][1] = OpError("executeSQL")
      /\ "filename" \notin DOMAIN cb[r][1][1]

\* the execution of the second of two unapplied files has failed
C5_Witness ==
  \E r \in Runs :
    /\ Len(calls[r]) > 0
    /\ FailedAt(r, Len(calls[r]), "executeSQL")
    /\ Len(Inserted(r)) = 1
    /\ Failed(r)

(***************************************************************************)
(* C6  Record lifecycle.  Every row was inserted by a run after that run   *)
(* executed the file's SQL without error; the rows of the table are        *)
(* exactly the rows the runs inserted; and no step removes or changes a    *)
(* row: the table only grows.                                              *)
(***************************************************************************)
RECURSIVE InsertedUpTo(_)
InsertedUpTo(r) == IF r = 0 THEN <<>> ELSE InsertedUpTo(r - 1) \o Inserted(r)

C6_RowsFollowExecution ==
  /\ \A r \in Runs : \A i \in 1..Len(calls[r]) :
       (calls[r][i].op = "insert" /\ calls[r][i].ok) =>
         \E j \in 1..(i - 1) :
           /\ calls[r][j].op = "executeSQL"
           /\ calls[r][j].ok
           /\ FileOf(calls[r][j]) = calls[r][i].arg
  /\ TableNames = InsertedUpTo(MaxRuns)

C6_TableGrows ==
  /\ Len(table') >= Len(table)
  /\ SubSeq(table', 1, Len(table)) = table

C6_RecordLifecycle == [] C6_RowsFollowExecution /\ [][C6_TableGrows]_vars

\* a later run adds a row to the rows an earlier run left
C6_Witness ==
  \E r \in Runs :
    /\ Len(applied_filenames[r]) >= 1
    /\ Len(Inserted(r)) >= 1
    /\ Len(table) >= 2

(***************************************************************************)
(* C7  Round trip over two runs.  A successful run that found the table    *)
(* empty returns all N .sql files of the directory; if the next run finds  *)
(* exactly one more .sql file in the directory and succeeds, it returns    *)
(* and executes that file alone, and the table then has N + 1 rows.        *)
(***************************************************************************)
\* the .sql files among the entries S
SqlFiles(S) == { f \in S : EndsWithDotSql(f) }

C7_RoundTrip ==
  \A r \in Runs :
    (Succeeded(r) /\ applied_filenames[r] = <<>>) =>
      /\ AscendingListOf(Result(r), SqlFiles(Listed(r)))
      /\ \A g \in Names :
           ( /\ r + 1 \in Runs
             /\ Succeeded(r + 1)
             /\ g \notin Listed(r)
             /\ EndsWithDotSql(g)
             /\ Listed(r + 1) = Listed(r) \cup {g} ) =>
               /\ Result(r + 1) = <<g>>
               /\ FilesOf(r + 1, "readFile") = <<g>>
               /\ FilesOf(r + 1, "executeSQL") = <<g>>
               /\ Inserted(r + 1) = <<g>>
               /\ Latest(r + 1) =>
                    Len(table) = Cardinality(SqlFiles(Listed(r))) + 1

\* a.sql and c.sql applied by the first run, b.sql added and applied by the second
C7_Witness ==
  /\ MaxRuns >= 2
  /\ Succeeded(1)
  /\ Result(1) = <<"a.sql", "c.sql">>
  /\ Succeeded(2)
  /\ Listed(2) = Listed(1) \cup {"b.sql"}
  /\ Result(2) = <<"b.sql">>
  /\ Len(table) = 3

(***************************************************************************)
(* C8  First-run result.  In a run that starts when the table does not     *)
(* exist, the creation of the table is the first operation to complete;    *)
(* if nothing fails the run succeeds, and its list is the ascending list   *)
(* of the .sql files of the directory, which is also the sequence of the   *)
(* files it executed and the sequence of the rows it inserted.             *)
(***************************************************************************)
\* no run before r has created the table
TableAbsentBefore(r) ==
  \A q \in Runs : q < r => (Len(calls[q]) = 1 /\ FailedAt(q, 1, "createTable"))

C8_FirstRun ==
  \A r \in Runs :
    TableAbsentBefore(r) =>
      /\ pc[r] \in {"idle", "createTable"} => (~tableExists /\ calls[r] = <<>>)
      /\ Len(calls[r]) >= 1 =>
           /\ calls[r][1].op = "createTable"
           /\ calls[r][1].ok => tableExists
      /\ (pc[r] = "done" /\ \A i \in 1..Len(calls[r]) : calls[r][i].ok) => Succeeded(r)
      /\ Succeeded(r) =>
           /\ AscendingListOf(Result(r), SqlFiles(Listed(r)))
           /\ Executed(r) = Result(r)
           /\ Inserted(r) = Result(r)
           /\ Latest(r) => TableNames = Result(r)

\* two patch files, listed the other way round, applied by the first run
C8_Witness ==
  /\ filenames[1] = <<"b.sql", "a.sql">>
  /\ Succeeded(1)
  /\ Result(1) = <<"a.sql", "b.sql">>
  /\ tableExists
  /\ TableNames = <<"a.sql", "b.sql">>

(***************************************************************************)
(* C9  Every error is fatal.  A failed operation is the last operation of  *)
(* its run: the run ends there and reports that operation's error and no   *)
(* list, once.  A run reports success only if none of its operations       *)
(* failed.  After a failed readFile there is no row for that file or for   *)
(* any later file.                                                         *)
(***************************************************************************)
C9_ErrorsAreFatal ==
  \A r \in Runs :
    /\ \A i \in 1..Len(calls[r]) :
         ~calls[r][i].ok =>
           /\ i = Len(calls[r])
           /\ Failed(r)
           /\ cb[r][1][1] = OpError(calls[r][i].op)
           /\ calls[r][i].op = "readFile" =>
                LET f == calls[r][i].arg
                IN  /\ Range(Inserted(r)) \cap ({f} \cup After(r, f)) = {}
                    /\ Latest(r) =>
                         Range(TableNames) \cap ({f} \cup After(r, f)) = {}
    /\ Len(cb[r]) <= 1
    /\ Len(cb[r]) = 1 => pc[r] = "done"
    /\ Succeeded(r) => \A i \in 1..Len(calls[r]) : calls[r][i].ok
    /\ Failed(r) => (Len(calls[r]) > 0 /\ ~calls[r][Len(calls[r])].ok)

\* the read of the second of three unapplied files has failed
C9_Witness ==
  \E r \in Runs :
    /\ Cardinality(UnappliedSet(r)) = 3
    /\ Len(calls[r]) > 0
    /\ FailedAt(r, Len(calls[r]), "readFile")
    /\ Len(Inserted(r)) = 1
    /\ Len(table) = 1
    /\ cb[r] = << <<OpError("readFile")>> >>

(***************************************************************************)
(* C10  Insert-failure hazard.  When the insert for a file fails, the SQL  *)
(* of the file has been executed, the run ends with the insert's error,    *)
(* and there is no row for the file and the file is in no result.  The     *)
(* next run, if it finds the same listing, has the file first among its    *)
(* unapplied files: the file is the first it reads and the first it        *)
(* executes, so that once that execution succeeds the SQL of the file has  *)
(* been executed twice.                                                    *)
(***************************************************************************)
C10_InsertFailure ==
  \A r \in Runs : \A i \in 1..Len(calls[r]) :
    FailedAt(r, i, "insert") =>
      LET f == calls[r][i].arg
      IN  /\ i = Len(calls[r])
          /\ Failed(r)
          /\ cb[r][1][1] = OpError("insert")
          /\ i > 1
          /\ calls[r][i - 1].op = "executeSQL"
          /\ calls[r][i - 1].ok
          /\ FileOf(calls[r][i - 1]) = f
          /\ Count(executed, Contents(f)) >= 1
          /\ f \notin Range(Inserted(r))
          /\ f \notin Range(newly_applied_filenames[r])
          /\ Latest(r) => f \notin Range(TableNames)
          /\ (r + 1 \in Runs /\ SelectOk(r + 1) /\ filenames[r + 1] = filenames[r]) =>
               LET n == Len(calls[r + 1])
               IN  /\ f \in UnappliedSet(r + 1)
                   /\ \A g \in UnappliedSet(r + 1) : g = f \/ LexLess(f, g)
                   /\ n = 3 => (pc[r + 1] = "readFile" /\ unapplied_filename[r + 1] = f)
                   /\ n >= 4 =>
                        (calls[r + 1][4].op = "readFile" /\ calls[r + 1][4].arg = f)
                   /\ n >= 5 =>
                        /\ calls[r + 1][5].op = "executeSQL"
                        /\ FileOf(calls[r + 1][5]) = f
                        /\ calls[r + 1][5].ok => Count(executed, Contents(f)) >= 2
                   /\ Succeeded(r + 1) =>
                        (Result(r + 1)[1] = f /\ Count(executed, Contents(f)) >= 2)

\* the insert for b.sql failed in one run; the next run has executed b.sql again
C10_Witness ==
  \E r \in Runs :
    /\ r + 1 \in Runs
    /\ Len(calls[r]) > 0
    /\ FailedAt(r, Len(calls[r]), "insert")
    /\ calls[r][Len(calls[r])].arg = "b.sql"
    /\ Inserted(r) = <<"a.sql">>
    /\ filenames[r + 1] = filenames[r]
    /\ Executed(r + 1) = <<"b.sql">>
    /\ Count(executed, Contents("b.sql")) = 2

(***************************************************************************)
(* C11  Overlapping invocations are unsafe.  Two runs against the same     *)
(* table and directory can both select the table before either inserts,    *)
(* and then the SQL of one file is executed twice and the table holds two  *)
(* rows with its filename (C11_Witness is such a state).  There is no      *)
(* other way to two rows: a run inserts a row for a file at most once, and *)
(* when the table holds two rows with one filename they were inserted by   *)
(* two runs, each of which had selected the table when it held no row for  *)
(* the file, that is, before the other run inserted its row.               *)
(***************************************************************************)
\* the runs that have inserted a row for f
Inserters(f) == { r \in Runs : f \in Range(Inserted(r)) }

C11_OverlapDuplicates ==
  \A f \in Names :
    /\ \A r \in Runs : Count(Inserted(r), f) <= 1 /\ Count(Executed(r), f) <= 1
    /\ Count(TableNames, f) = Cardinality(Inserters(f))
    /\ Count(executed, Contents(f))
         = Cardinality({ r \in Runs : f \in Range(Executed(r)) })
    /\ \A r \in Inserters(f) :
         /\ SelectOk(r)
         /\ f \in Listed(r)
         /\ f \notin AppliedSet(r)

\* both runs selected an empty table, then each executed a.sql and inserted a
\* row for it, and each reported a.sql as newly applied
C11_Witness ==
  /\ \A r \in Runs : Succeeded(r) /\ applied_filenames[r] = <<>>
  /\ \A r \in Runs : Result(r) = <<"a.sql">>
  /\ Count(executed, Contents("a.sql")) = MaxRuns
  /\ Count(TableNames, "a.sql") = MaxRuns
  /\ MaxRuns >= 2

(***************************************************************************)
(* C12  The table holds only names that were listed.  Whatever files are   *)
(* added and deleted and whatever rows are deleted between the runs, every *)
(* filename in the table was in the directory listing of some run.  A row  *)
(* is not removed by deleting its file, nor by any operation of a run.  A  *)
(* run that finds a row for a file issues no readFile, executeSQL or       *)
(* insert for it, whether the file is still on disk or not, so the file    *)
(* being gone causes no error: a run that finds a row for every .sql file  *)
(* it listed reports success.                                              *)
(***************************************************************************)
\* run r has issued or completed a readFile, executeSQL or insert for f
OperatedOn(r, f) ==
  \/ Active(r) /\ unapplied_filename[r] = f
  \/ \E i \in 1..Len(calls[r]) :
       /\ calls[r][i].op \in {"readFile", "executeSQL", "insert"}
       /\ FileOf(calls[r][i]) = f

C12_RecordedWereListed ==
  /\ \A i \in 1..Len(table) : \E r \in Runs : table[i].filename \in Listed(r)
  /\ \A r \in Runs : \A f \in AppliedSet(r) : ~OperatedOn(r, f)
  /\ \A r \in Runs :
       (pc[r] = "done" /\ SelectOk(r) /\ UnappliedSet(r) = {}) => Succeeded(r)

\* a step that changes the directory or completes an operation of a run
\* removes no row
C12_RowsStay ==
  (dir' # dir \/ calls' # calls) =>
     \A f \in Names : Count(TableNames', f) >= Count(TableNames, f)

C12_BookkeepingSubset == [] C12_RecordedWereListed /\ [][C12_RowsStay]_vars

\* run 1 recorded a.sql, then a.sql was deleted; run 2 did not list it, found
\* its row and reported success with nothing applied; the row is still there
C12_Witness ==
  /\ MaxRuns >= 2
  /\ "a.sql" \in Range(Inserted(1))
  /\ "a.sql" \notin Range(dir)
  /\ Succeeded(2)
  /\ "a.sql" \notin Listed(2)
  /\ "a.sql" \in AppliedSet(2)
  /\ Result(2) = <<>>
  /\ Count(TableNames, "a.sql") = 1

(***************************************************************************)
(* C13  The table is the ground truth at the moment of the run.  A run     *)
(* selects the table once; what it takes as applied is the filenames of    *)
(* the rows the table holds at that moment, in their order, and it does    *)
(* not change afterwards.  A run that reports success has executed and     *)
(* recorded exactly the listed .sql files that had no row at that moment,  *)
(* whatever earlier runs did: when an earlier run recorded a file, the     *)
(* file is still listed and its row is gone, the run executes the file     *)
(* again and inserts a new row for it; every insert that completes without *)
(* error adds a row to the table.                                          *)
(***************************************************************************)
C13_AppliedIsSelected ==
  \A r \in Runs :
    /\ (pc[r] = "select" /\ pc'[r] # "select" /\ SelectOk(r)')
          => applied_filenames'[r] = TableNames
    /\ pc[r] # "select" => applied_filenames'[r] = applied_filenames[r]
    /\ Len(Inserted(r)') > Len(Inserted(r)) =>
         LET f == Inserted(r)'[Len(Inserted(r)')]
         IN  Count(TableNames', f) = Count(TableNames, f) + 1

C13_SelectedDecides ==
  \A r \in Runs :
    /\ Len(CallsOf(r, "select")) <= 1
    /\ ~SelectOk(r) => applied_filenames[r] = <<>>
    /\ Succeeded(r) =>
         /\ AscendingListOf(Executed(r), UnappliedSet(r))
         /\ Inserted(r) = Executed(r)
         /\ \A q \in Runs : \A f \in Range(Inserted(q)) :
              (q < r /\ f \in Listed(r) /\ f \notin AppliedSet(r))
                 => /\ Count(Executed(r), f) = 1
                    /\ Count(Inserted(r), f) = 1

C13_GroundTruth == [] C13_SelectedDecides /\ [][C13_AppliedIsSelected]_vars

\* run 1 recorded a.sql; its row was deleted while the file stayed; run 2 found
\* no row for it, executed it a second time and inserted a new row
C13_Witness ==
  /\ MaxRuns >= 2
  /\ "a.sql" \in Range(Inserted(1))
  /\ Succeeded(2)
  /\ "a.sql" \in Listed(2)
  /\ "a.sql" \notin AppliedSet(2)
  /\ "a.sql" \in Range(Result(2))
  /\ Count(executed, Contents("a.sql")) = 2
  /\ Count(TableNames, "a.sql") = 1

(***************************************************************************)
(* C14  Exit status of the command.  The process exits with status 0 when  *)
(* --help or --version is given and when the run reports success, and      *)
(* with status 1 when --database is missing, when the database cannot be   *)
(* created and when the run reports an error (a failed table creation,     *)
(* directory listing, select, file read, SQL execution or insert).  With   *)
(* --help or --version no connection is made and no operation of a run is  *)
(* issued.  The process ends in the step in which the run reports.         *)
(***************************************************************************)
\* the process has ended with the given status
Exited(status) == cli.pc = "exited" /\ cli.exit = status

\* the run the command makes has not been started
NotStarted == pc[1] = "idle" /\ calls[1] = <<>> /\ cb[1] = <<>>

C14_ExitStatus ==
  /\ cli.pc # "exited" <=> cli.exit = NoExit
  /\ cli.pc = "exited" => cli.exit \in {0, 1}
  /\ (cli.argv.help \/ cli.argv.version) =>
        /\ ~cli.connection
        /\ NotStarted /\ executed = <<>> /\ table = <<>> /\ ~tableExists
        /\ cli.pc = "exited" => cli.exit = 0
  /\ (~cli.argv.help /\ ~cli.argv.version /\ ~cli.argv.database) =>
        /\ ~cli.connection /\ NotStarted
        /\ cli.pc = "exited" => cli.exit = 1
  /\ (cli.pc = "exited" /\ cli.connection /\ NotStarted) => cli.exit = 1
  /\ pc[1] = "done" <=> (cli.pc = "exited" /\ ~NotStarted)
  /\ Succeeded(1) => Exited(0)
  /\ Failed(1) => Exited(1)
  /\ Exited(0) => (cli.argv.help \/ cli.argv.version \/ Succeeded(1))
  /\ Exited(1) <=> (cli.pc = "exited" /\ cli.error \notin {NotCalled, NoArgument})

\* the SQL of the second file failed: the process has ended with status 1, after
\* the first file was applied
C14_Witness ==
  /\ Exited(1)
  /\ cli.connection
  /\ Failed(1)
  /\ Len(Inserted(1)) = 1
  /\ FailedAt(1, Len(calls[1]), "executeSQL")

(***************************************************************************)
(* C15  Strict sequencing within a run.  A run has at most one operation   *)
(* in flight.  Its readFile, executeSQL and insert operations complete in  *)
(* the order read, execute, insert of the first unapplied file, then read, *)
(* execute, insert of the next, and so on; each is issued only when the    *)
(* one before it has completed without error.  So the read of a file is    *)
(* in flight or completed only when the insert of every unapplied file     *)
(* before it has completed, and no file is read ahead.                     *)
(***************************************************************************)
\* the completed readFile, executeSQL and insert operations of run r, in order
PatchCalls(r) ==
  SelectSeq(calls[r], LAMBDA c : c.op \in {"readFile", "executeSQL", "insert"})

\* the operations of run r that are in flight, each with the file it is about
InFlight(r) ==
  IF Active(r)
  THEN {<<pc[r], IF pc[r] \in {"readFile", "executeSQL", "insert"}
                 THEN unapplied_filename[r] ELSE Undefined>>}
  ELSE {}

\* the i-th operation on the files of a run
KindOf(i) ==
  CASE i % 3 = 1 -> "readFile"
    [] i % 3 = 2 -> "executeSQL"
    [] OTHER -> "insert"

C15_StrictSequence ==
  \A r \in Runs :
    LET p == PatchCalls(r)
        n == Len(p)
    IN  /\ Cardinality(InFlight(r)) <= 1
        /\ \A i \in 1..n :
             /\ p[i].op = KindOf(i)
             /\ i < n => p[i].ok
             /\ i % 3 # 1 => FileOf(p[i]) = FileOf(p[i - 1])
             /\ (i % 3 = 1 /\ i > 1) => LexLess(FileOf(p[i - 1]), FileOf(p[i]))
        /\ \A o \in InFlight(r) :
             /\ o[1] \in {"createTable", "readdir", "select"} => n = 0
             /\ o[1] \in {"readFile", "executeSQL", "insert"} =>
                  /\ o[1] = KindOf(n + 1)
                  /\ n > 0 => p[n].ok
                  /\ o[1] # "readFile" => FileOf(p[n]) = o[2]
                  /\ o[1] = "readFile" =>
                       /\ Before(r, o[2]) = Range(Inserted(r))
                       /\ n > 0 => LexLess(FileOf(p[n]), o[2])
        /\ \A f \in Range(FilesOf(r, "readFile")) : Before(r, f) \subseteq Range(Inserted(r))
        /\ Len(FilesOf(r, "readFile")) <= Len(Inserted(r)) + 1

\* a.sql has been read, executed and recorded, and only now the read of b.sql
\* is in flight
C15_Witness ==
  \E r \in Runs :
    /\ InFlight(r) = {<<"readFile", "b.sql">>}
    /\ UnappliedSet(r) = {"a.sql", "b.sql"}
    /\ Len(PatchCalls(r)) = 3
    /\ Inserted(r) = <<"a.sql">>

(***************************************************************************)
(* C16  Set-up order.  The first three operations of a run are the table   *)
(* creation, the directory listing and the select, in this order, each     *)
(* issued only when the one before it has completed without error.  When   *)
(* the table creation fails the directory is never listed; when the        *)
(* listing fails the table is never selected and no file is read or        *)
(* executed, although the table has been created by then.                  *)
(***************************************************************************)
\* run r has issued the operation op
Issued(r, op) == pc[r] = op \/ \E i \in 1..Len(calls[r]) : calls[r][i].op = op

\* run r has completed the operation op, with the given outcome
CompletedWith(r, op, ok) ==
  \E i \in 1..Len(calls[r]) : calls[r][i].op = op /\ calls[r][i].ok = ok

SetUp == <<"createTable", "readdir", "select">>

C16_SetUpOrder ==
  \A r \in Runs :
    /\ \A i \in 1..Len(calls[r]) :
         /\ i <= Len(SetUp) => calls[r][i].op = SetUp[i]
         /\ i > Len(SetUp) => calls[r][i].op \notin Range(SetUp)
    /\ pc[r] # "idle" => Issued(r, "createTable")
    /\ Issued(r, "readdir") => CompletedWith(r, "createTable", TRUE)
    /\ Issued(r, "select") => CompletedWith(r, "readdir", TRUE)
    /\ \A op \in {"readFile", "executeSQL", "insert"} :
         Issued(r, op) => CompletedWith(r, "select", TRUE)
    /\ CompletedWith(r, "createTable", FALSE) =>
         /\ Failed(r)
         /\ \A op \in {"readdir", "select", "readFile", "executeSQL", "insert"} :
              ~Issued(r, op)
         /\ filenames[r] = <<>>
    /\ CompletedWith(r, "readdir", FALSE) =>
         /\ Failed(r)
         /\ \A op \in {"select", "readFile", "executeSQL", "insert"} : ~Issued(r, op)
         /\ tableExists
         /\ applied_filenames[r] = <<>>

\* the first run found files in the directory to list, created the table, and
\* its directory listing failed: the table exists and was never selected
C16_Witness ==
  /\ dir # <<>>
  /\ CompletedWith(1, "readdir", FALSE)
  /\ Latest(1)
  /\ tableExists
  /\ table = <<>>
  /\ ~Issued(1, "select")
  /\ executed = <<>>

(***************************************************************************)
(* C17  Termination.  When every operation a run issues completes, the run *)
(* eventually reports exactly one outcome.  Until then it has completed at *)
(* most one read, one execute and one insert for each unapplied file and   *)
(* none for any other file.  A run that reports success has read, executed *)
(* and recorded every unapplied file; a run that reports an error has      *)
(* halted on its first error: the failed operation is its last one.        *)
(***************************************************************************)
C17_BoundedWork ==
  \A r \in Runs :
    /\ \A op \in {"readFile", "executeSQL", "insert"} :
         /\ NoRepeat(FilesOf(r, op))
         /\ Range(FilesOf(r, op)) \subseteq UnappliedSet(r)
    /\ pc[r] = "done" => Len(cb[r]) = 1 /\ (Succeeded(r) \/ Failed(r))
    /\ pc[r] # "done" => cb[r] = <<>>
    /\ Succeeded(r) =>
         /\ \A i \in 1..Len(calls[r]) : calls[r][i].ok
         /\ \A op \in {"readFile", "executeSQL", "insert"} :
              Range(FilesOf(r, op)) = UnappliedSet(r)
    /\ Failed(r) =>
         /\ calls[r] # <<>>
         /\ \A i \in 1..Len(calls[r]) : calls[r][i].ok <=> i < Len(calls[r])

C17_Reports ==
  \A r \in Runs : (pc[r] # "idle") ~> (pc[r] = "done" /\ Len(cb[r]) = 1)

C17_Termination == [] C17_BoundedWork /\ C17_Reports

\* a run has made a full pass over three unapplied files and reported success
C17_Witness ==
  \E r \in Runs :
    /\ Succeeded(r)
    /\ Cardinality(UnappliedSet(r)) = MaxFiles
    /\ Len(PatchCalls(r)) = 3 * MaxFiles

(***************************************************************************)
(* C18  The callback is called exactly once.  When every operation a run   *)
(* issues completes with one call of its callback, the run calls the       *)
(* caller's callback once and never again: either with an error and no     *)
(* list, or with null and the list of the newly applied filenames; after   *)
(* the call the run issues and completes no further operation.             *)
(***************************************************************************)
\* an argument list of the callback: an error alone, or null and a list
ErrorAlone(args) == Len(args) = 1 /\ args[1] # Null
NullAndList(args) ==
  /\ Len(args) = 2
  /\ args[1] = Null
  /\ \A i \in 1..Len(args[2]) : args[2][i] \in Names

C18_OneCall ==
  \A r \in Runs :
    /\ Len(cb[r]) <= 1
    /\ cb[r] # <<>> <=> pc[r] = "done"
    /\ \A i \in 1..Len(cb[r]) :
         /\ ErrorAlone(cb[r][i]) \/ NullAndList(cb[r][i])
         /\ ~(ErrorAlone(cb[r][i]) /\ NullAndList(cb[r][i]))
         /\ ErrorAlone(cb[r][i]) <=> ~calls[r][Len(calls[r])].ok
         /\ NullAndList(cb[r][i]) => cb[r][i][2] = Inserted(r)

C18_NoSecondCall ==
  \A r \in Runs :
    cb[r] # <<>> => cb'[r] = cb[r] /\ calls'[r] = calls[r] /\ pc'[r] = pc[r]

C18_Called ==
  \A r \in Runs : (pc[r] # "idle") ~> (Len(cb[r]) = 1)

C18_CallbackExactlyOnce ==
  [] C18_OneCall /\ [][C18_NoSecondCall]_vars /\ C18_Called

\* the two kinds of call, side by side: the first run was called back with an
\* error alone, the second with null and a list that is not empty
C18_Witness ==
  /\ MaxRuns >= 2
  /\ Len(cb[1]) = 1 /\ ErrorAlone(cb[1][1])
  /\ Len(cb[2]) = 1 /\ NullAndList(cb[2][1])
  /\ cb[2][1][2] # <<>>

(***************************************************************************)
(* C19  Bounded unrecorded window.  At every point of a run the files      *)
(* whose rows it has inserted are the files whose SQL it has executed      *)
(* without error, in the same order, except perhaps the last executed      *)
(* one; so the executed files outnumber the inserted rows by at most one.  *)
(* The list of newly applied filenames is at every point the list of the   *)
(* files whose rows the run has inserted.  One file is executed and not    *)
(* recorded exactly while its insert is in flight and after its insert     *)
(* has failed; a run that has ended leaves at most one such file, and a    *)
(* run that reports success leaves none.                                   *)
(***************************************************************************)
\* the files run r has executed without error and not recorded
Unrecorded(r) == SubSeq(Executed(r), Len(Inserted(r)) + 1, Len(Executed(r)))

C19_UnrecordedWindow ==
  \A r \in Runs :
    /\ Len(Inserted(r)) <= Len(Executed(r))
    /\ Len(Executed(r)) <= Len(Inserted(r)) + 1
    /\ Inserted(r) = SubSeq(Executed(r), 1, Len(Inserted(r)))
    /\ newly_applied_filenames[r] = Inserted(r)
    /\ Len(Unrecorded(r)) = 1 <=>
         \/ pc[r] = "insert"
         \/ pc[r] = "done" /\ calls[r] # <<>> /\ FailedAt(r, Len(calls[r]), "insert")
    /\ Len(Unrecorded(r)) = 1 => Unrecorded(r) = <<unapplied_filename[r]>>
    /\ Succeeded(r) => Unrecorded(r) = <<>> /\ Result(r) = Inserted(r)

\* a run has ended with the insert for its second file failed: two files
\* executed, one row inserted, one file executed and not recorded
C19_Witness ==
  \E r \in Runs :
    /\ Failed(r)
    /\ Executed(r) = <<"a.sql", "b.sql">>
    /\ Inserted(r) = <<"a.sql">>
    /\ newly_applied_filenames[r] = <<"a.sql">>
    /\ Unrecorded(r) = <<"b.sql">>

(***************************************************************************)
(* C20  No double application by runs that do not overlap.  Within a run   *)
(* no file has two readFile, two executeSQL or two insert operations.      *)
(* Over a sequence of runs that do not overlap, with the table changed by  *)
(* nothing but the runs, no filename ever has two rows, and as long as no  *)
(* insert has failed no file has had its SQL executed without error twice. *)
(* A later run issues executeSQL for a file an earlier run issued it for   *)
(* only when that earlier execution failed or the insert after it failed.  *)
(***************************************************************************)
\* some run has had an insert fail
SomeInsertFailed ==
  \E r \in Runs : \E i \in 1..Len(calls[r]) : FailedAt(r, i, "insert")

\* run r has completed the operation op on the file f, with the given outcome
CompletedOn(r, op, f, ok) ==
  \E i \in 1..Len(calls[r]) :
    /\ calls[r][i].op = op
    /\ FileOf(calls[r][i]) = f
    /\ calls[r][i].ok = ok

====
